---- MODULE Spec2Model ----
(***************************************************************************)
(* The product list of the store front (ProductList), the add form with    *)
(* its bulk import (AddProductForm) and the REST backend they talk to.     *)
(* Every asynchronous handler is split where it awaits: the part before    *)
(* the await sends the request and captures its closure (the `products`    *)
(* of the render the handler belongs to), the part after it runs when the  *)
(* response is delivered.                                                  *)
(*                                                                         *)
(* A product is modelled by its id, name, category, price and stock; the   *)
(* description, url and updatedAt fields take part in no handler's         *)
(* decision.  ProductList talks to the /products endpoint of the backend,  *)
(* the bulk import additionally posts each product to /api/products, whose *)
(* store the list never reads.  The edit dialog (editingProduct) is        *)
(* modelled by the record it holds when it is submitted.                   *)
(*                                                                         *)
(* Spec is the product list with the add form, used by an admin.  SpecBulk *)
(* is the bulk import alone on a loaded list, SpecView the search box and  *)
(* the two selects of a loaded list with the filtered view they produce,   *)
(* and SpecAuth the session: AuthProvider with the stored entry, the login *)
(* form, the Navbar and the routes of App.  SpecLoaded is the list after   *)
(* its load with every handler but the load, SpecDash the AdminDashboard   *)
(* with its fetch and its renders, SpecGen the fields of the add form with *)
(* the description generation, and SpecCsv the CSV export with the parser  *)
(* of the bulk import reading the exported text.                           *)
(***************************************************************************)
EXTENDS Integers, Sequences, FiniteSets, TLC

\* ---------------------------------------------------------------- bounds
MaxRequests == 3    \* requests the application sends in one run
MaxPending == 2     \* requests of the product list in flight at once
MaxLines == 2       \* data lines of an imported file
MaxViewLen == 3     \* products of a list whose filtered view is taken

\* ------------------------------------------------------------- constants
LowStockThreshold == 10

VARIABLES
    products,   \* ProductList: useState<Product[]>([])
    backend,    \* the records the REST backend holds, in insertion order
    nextId,     \* the next id the backend assigns
    sentCount,  \* how many requests the application has sent so far
    pending,    \* requests of ProductList in flight, each with its closure
    bulk,       \* the bulk import loop of AddProductForm
    ev,         \* the last handler that ran: its toasts and the requests it sent
    toaster,    \* Toaster: the low-stock toasts on screen, the newest first
    search,     \* ProductList: useState("") of the search box, a sequence of letters
    categoryFilter, \* ProductList: useState("") of the category select
    sortBy,     \* ProductList: useState("") of the sort select
    user,       \* AuthProvider: useState<User | null>
    localStorage,   \* the entry "user" of the browser's localStorage
    syncDue,    \* the effect on [user] of AuthProvider has yet to run
    app,        \* the page: "unloaded", "running" or "crashed"
    route,      \* the path the router shows
    screen,     \* the surfaces the current render offers
    importLog,  \* the running bulk import: lines accepted, creation requests sent
    form,       \* AddProductForm: useState of `product`, the fields of the form
    isGenerating,   \* AddProductForm: useState(false)
    HUGGINGFACE_API_KEY \* import.meta.env.VITE_API_KEY, "" when the build has none

storeVars == <<products, backend, nextId, sentCount, pending, bulk>>

viewVars == <<search, categoryFilter, sortBy>>

authVars == <<user, localStorage, syncDue, app, route, screen>>

formVars == <<form, isGenerating, HUGGINGFACE_API_KEY>>

\* no import is running
LogIdle == [accepted |-> 0, requests |-> 0]

vars == <<products, backend, nextId, sentCount, pending, bulk, ev, toaster,
          search, categoryFilter, sortBy,
          user, localStorage, syncDue, app, route, screen, importLog,
          form, isGenerating, HUGGINGFACE_API_KEY>>

\* ------------------------------------------------------------ data model
\* String.prototype.toLowerCase on the names of the model: "", "Widget",
\* "widget", "Gadget" and "Gizmo"
ToLowerCase(s) ==
    CASE s = "Widget" -> "widget"
      [] s = "Gadget" -> "gadget"
      [] s = "Gizmo" -> "gizmo"
      [] OTHER -> s

Product(id, name, category, price, stock) ==
    [id |-> id, name |-> name, category |-> category, price |-> price, stock |-> stock]

\* a request or an event that carries no product
NoProduct == Product(0, "", "", 0, 0)

\* the records of db.json when the application starts
InitialDb == << Product(1, "Widget", "Books", 5, 5), Product(2, "Gadget", "Books", 5, 50) >>

\* what an admin can type into the add form or the edit form
Candidates ==
    { Product(0, "widget", "Books", 5, 10),
      Product(0, "Gizmo", "Books", 5, 9),
      Product(0, "", "Books", 5, 10),
      Product(0, "Gizmo", "", 5, 10),
      Product(0, "Gizmo", "Books", 0, 10),
      Product(0, "Gizmo", "Books", 5, -1) }

\* the `product` state of the add form
FormProduct(name, category, price, stock, description, url) ==
    [name |-> name, category |-> category, price |-> price, stock |-> stock,
     description |-> description, url |-> url]

\* useState({name: "", category: "", price: 0, stock: 0, description: "", url: ""})
EmptyForm == FormProduct("", "", 0, 0, "", "")

\* ---------------------------------------------------------------- toasts
Toast(type, msg, key, name, stock) ==
    [type |-> type, msg |-> msg, key |-> key, name |-> name, stock |-> stock]

\* a low-stock toast that is given no id
LowStockToastUnkeyed(p) == Toast("error", "low-stock", 0, p.name, p.stock)

\* the comparison with the threshold made inclusive
LowStockInclusive(p) == p.stock <= LowStockThreshold

\* product.stock < 10
LowStock(p) == p.stock < LowStockThreshold

LowStockToast(p) == Toast("error", "low-stock", p.id, p.name, p.stock)

\* fetchedProducts.forEach(...): one toast per low-stock product, in order
RECURSIVE LowStockToasts(_)
LowStockToasts(ps) ==
    IF ps = <<>> THEN <<>>
    ELSE (IF LowStock(Head(ps)) THEN <<LowStockToast(Head(ps))>> ELSE <<>>)
         \o LowStockToasts(Tail(ps))

\* toast.error(msg, {id}) on the toasts on screen: a toast whose id is on screen
\* replaces that toast where it stands, any other toast is added in front.  The
\* key of the model is the product id of `low-stock-${id}`; 0 is a toast that
\* was given no id.
Upsert(store, t) ==
    IF t.key # 0 /\ \E k \in 1..Len(store) : store[k].key = t.key
    THEN [k \in 1..Len(store) |-> IF store[k].key = t.key THEN t ELSE store[k]]
    ELSE <<t>> \o store

\* the low-stock toasts of one handler, shown in the order it emitted them; the
\* other toasts of the application carry no id and replace nothing
RECURSIVE ShowAll(_, _)
ShowAll(store, ts) ==
    IF ts = <<>> THEN store
    ELSE ShowAll(IF Head(ts).msg = "low-stock" THEN Upsert(store, Head(ts)) ELSE store,
                 Tail(ts))

\* -------------------------------------------------------------- requests
Request(op, body, snap) ==
    [op |-> op, body |-> body, snap |-> snap, resp |-> "none", data |-> <<>>]

Sent(op, body) == [op |-> op, body |-> body]

\* what the handler `op` did: its argument, the response data it was given,
\* the toasts it emitted and the requests it sent, in order
Event(op, arg, data, toasts, sent) ==
    [op |-> op, arg |-> arg, data |-> data, toasts |-> toasts, sent |-> sent]

\* the bounds of the model leave room for n more requests of the product list
\* and m more requests in all; a handler of a user event starts only while
\* there is room for the request it may send
Room(n, m) == Len(pending) + n <= MaxPending /\ sentCount + m <= MaxRequests

RemoveAt(s, i) == SubSeq(s, 1, i - 1) \o SubSeq(s, i + 1, Len(s))

BulkIdle == [active |-> FALSE, items |-> <<>>, snap |-> <<>>, successCount |-> 0]

\* --------------------------------------------------------------- session
\* interface User; Anonymous is the user that is null
Session(username, role) == [username |-> username, role |-> role]

Anonymous == Session("", "")

Account(username, password, role) ==
    [username |-> username, password |-> password, role |-> role]

\* the users of db.json: an admin, a user, and a second account with the
\* admin's credentials whose role differs from "admin" in case only
InitialUsers ==
    << Account("admin", "admin123", "admin"),
       Account("user", "user123", "user"),
       Account("admin", "admin123", "Admin") >>

\* localStorage.getItem("user") of an entry that is not there
NoEntry == <<>>

\* a serialisation that keeps the username only
StringifyUsernameOnly(u) == << "{", "username", u.username, "}" >>

\* JSON.stringify(user): the text {"username":...,"role":...}, token by token
Stringify(u) == << "{", "username", u.username, "role", u.role, "}" >>

\* JSON.parse accepts the text
WellFormed(text) ==
    /\ Len(text) = 6
    /\ text[1] = "{"
    /\ text[2] = "username"
    /\ text[4] = "role"
    /\ text[6] = "}"

\* JSON.parse(savedUser) of a text it accepts
Parse(text) == Session(text[3], text[5])

\* the session that components read with useAuth()
useAuth == user

\* a guard that lets every logged-in user through
PrivateRouteAnyUser(u, role) == u # Anonymous

\* PrivateRoute renders its children: not (!user || user.role !== role)
PrivateRoute(u, role) == ~(u = Anonymous \/ u.role # role)

\* the path the router ends on when `path` is asked for: <Navigate to="/" />
Resolve(path, u) ==
    IF path = "/admin" /\ ~PrivateRoute(u, "admin") THEN "/" ELSE path

\* user?.role === "admin"
IsAdmin(u) == u # Anonymous /\ u.role = "admin"

\* what the routes of App render on `path` for the session u
Surfaces(path, u) ==
    CASE Resolve(path, u) = "/admin" -> {"AdminDashboard"}
      [] Resolve(path, u) = "/login" -> {"Login"}
      [] OTHER -> {"ProductList"}
                  \cup (IF IsAdmin(u) THEN {"AddProductForm", "EditDelete"} ELSE {})

\* ------------------------------------------------------------------ Init
\* ProductList has mounted: the list is empty and the effect's GET is in flight
Init ==
    /\ products = <<>>
    /\ backend = InitialDb
    /\ nextId = 3
    /\ sentCount = 1
    /\ pending = << Request("GET", NoProduct, <<>>) >>
    /\ bulk = BulkIdle
    /\ ev = Event("mount", NoProduct, <<>>, <<>>, << Sent("GET", NoProduct) >>)
    /\ toaster = <<>>
    /\ search = <<>>
    /\ categoryFilter = ""
    /\ sortBy = ""
    /\ user = Session("admin", "admin")
    /\ localStorage = Stringify(user)
    /\ syncDue = FALSE
    /\ app = "running"
    /\ route = "/"
    /\ screen = Surfaces(route, user)
    /\ importLog = LogIdle
    /\ form = EmptyForm
    /\ isGenerating = FALSE
    /\ HUGGINGFACE_API_KEY = "hf-key"

\* ------------------------------------------------- ProductList handlers
\* useEffect(() => { fetchProducts(); }, []) of a fresh mount of the list:
\* the route is left and entered again while nothing is in flight
Mount ==
    /\ pending = <<>>
    /\ ~bulk.active
    /\ Room(1, 1)
    /\ sentCount' = sentCount + 1
    /\ products' = <<>>
    /\ pending' = << Request("GET", NoProduct, <<>>) >>
    /\ ev' = Event("mount", NoProduct, <<>>, <<>>, << Sent("GET", NoProduct) >>)
    /\ UNCHANGED <<backend, nextId, bulk>>

\* fetchProducts after the await, try branch
fetchProductsThen(i) ==
    /\ pending[i].op = "GET"
    /\ pending[i].resp = "ok"
    /\ products' = pending[i].data
    /\ pending' = RemoveAt(pending, i)
    /\ ev' = Event("fetchProductsThen", NoProduct, pending[i].data,
                   LowStockToasts(pending[i].data), <<>>)
    /\ UNCHANGED <<backend, nextId, sentCount, bulk>>

\* fetchProducts after the await, catch branch
fetchProductsCatch(i) ==
    /\ pending[i].op = "GET"
    /\ pending[i].resp = "fail"
    /\ pending' = RemoveAt(pending, i)
    /\ ev' = Event("fetchProductsCatch", NoProduct, <<>>,
                   << Toast("error", "fetch-failed", 0, "", 0) >>, <<>>)
    /\ UNCHANGED <<products, backend, nextId, sentCount, bulk>>

\* products.some((p) => p.name.toLowerCase() === product.name.toLowerCase())
NameTaken(product, ps) ==
    \E i \in 1..Len(ps) : ToLowerCase(ps[i].name) = ToLowerCase(product.name)

\* addProduct up to its await: the toasts it emits and the requests it sends
\* when it runs in a render whose `products` is ps
addProductToasts(product, ps) ==
    IF NameTaken(product, ps)
    THEN << Toast("error", "duplicate", 0, product.name, product.stock) >>
    ELSE <<>>

addProductRequests(product, ps) ==
    IF NameTaken(product, ps) THEN <<>> ELSE << Request("POST", product, ps) >>

RECURSIVE SentOf(_)
SentOf(reqs) ==
    IF reqs = <<>> THEN <<>>
    ELSE << Sent(Head(reqs).op, Head(reqs).body) >> \o SentOf(Tail(reqs))

\* addProduct after the await, try branch: setProducts([...products, response.data])
addProductThen(i) ==
    /\ pending[i].op = "POST"
    /\ pending[i].resp = "ok"
    /\ products' = Append(pending[i].snap, pending[i].data[1])
    /\ pending' = RemoveAt(pending, i)
    /\ ev' = Event("addProductThen", pending[i].body, pending[i].data,
                   << Toast("success", "added", 0, pending[i].body.name,
                            pending[i].body.stock) >>, <<>>)
    /\ UNCHANGED <<backend, nextId, sentCount, bulk>>

\* a catch branch that shows the product although its request failed
addProductCatchOptimistic(i) ==
    /\ pending[i].op = "POST"
    /\ pending[i].resp = "fail"
    /\ products' = Append(pending[i].snap, pending[i].body)
    /\ pending' = RemoveAt(pending, i)
    /\ ev' = Event("addProductCatch", pending[i].body, <<>>,
                   << Toast("error", "add-failed", 0, "", 0) >>, <<>>)
    /\ UNCHANGED <<backend, nextId, sentCount, bulk>>

\* addProduct after the await, catch branch
addProductCatch(i) ==
    /\ pending[i].op = "POST"
    /\ pending[i].resp = "fail"
    /\ pending' = RemoveAt(pending, i)
    /\ ev' = Event("addProductCatch", pending[i].body, <<>>,
                   << Toast("error", "add-failed", 0, "", 0) >>, <<>>)
    /\ UNCHANGED <<products, backend, nextId, sentCount, bulk>>

\* updateProduct up to its await, in a render whose `products` is ps
NameTakenByOther(updatedProduct, ps) ==
    \E i \in 1..Len(ps) :
        /\ ToLowerCase(ps[i].name) = ToLowerCase(updatedProduct.name)
        /\ ps[i].id # updatedProduct.id

updateProductToasts(updatedProduct, ps) ==
    IF NameTakenByOther(updatedProduct, ps)
    THEN << Toast("error", "duplicate", 0, updatedProduct.name, updatedProduct.stock) >>
    ELSE <<>>

updateProductRequests(updatedProduct, ps) ==
    IF NameTakenByOther(updatedProduct, ps) THEN <<>>
    ELSE << Request("PUT", updatedProduct, ps) >>

\* products.map((p) => (p.id === updatedProduct.id ? response.data : p))
ReplaceById(ps, id, rec) ==
    [j \in 1..Len(ps) |-> IF ps[j].id = id THEN rec ELSE ps[j]]

\* products.filter((p) => p.id !== id)
RemoveById(ps, id) == SelectSeq(ps, LAMBDA p : p.id # id)

\* updateProduct after the await, try branch
updateProductThen(i) ==
    /\ pending[i].op = "PUT"
    /\ pending[i].resp = "ok"
    /\ products' = ReplaceById(pending[i].snap, pending[i].body.id, pending[i].data[1])
    /\ pending' = RemoveAt(pending, i)
    /\ ev' = Event("updateProductThen", pending[i].body, pending[i].data,
                   << Toast("success", "updated", 0, pending[i].body.name,
                            pending[i].body.stock) >>
                   \o LowStockToasts(pending[i].data), <<>>)
    /\ UNCHANGED <<backend, nextId, sentCount, bulk>>

\* updateProduct after the await, catch branch
updateProductCatch(i) ==
    /\ pending[i].op = "PUT"
    /\ pending[i].resp = "fail"
    /\ pending' = RemoveAt(pending, i)
    /\ ev' = Event("updateProductCatch", pending[i].body, <<>>,
                   << Toast("error", "update-failed", 0, "", 0) >>, <<>>)
    /\ UNCHANGED <<products, backend, nextId, sentCount, bulk>>

\* the constraints of the edit form's inputs, which the browser checks before
\* it fires onSubmit: name and category required, price and stock min="0"
EditFormValid(p) ==
    /\ p.name # ""
    /\ p.category # ""
    /\ p.price >= 0
    /\ p.stock >= 0

\* The edit form on row i of the list: setEditingProduct(product), the onChange
\* handlers that leave the form holding the fields of c under the row's id, and
\* handleEditSubmit: if (editingProduct) updateProduct(editingProduct)
handleEditSubmit(i, c) ==
    LET editingProduct == [c EXCEPT !.id = products[i].id]
    IN /\ EditFormValid(editingProduct)
       /\ Room(1, 1)
       /\ pending' = pending \o updateProductRequests(editingProduct, products)
       /\ sentCount' = sentCount + Len(updateProductRequests(editingProduct, products))
       /\ ev' = Event("handleEditSubmit", editingProduct, <<>>,
                      updateProductToasts(editingProduct, products),
                      SentOf(updateProductRequests(editingProduct, products)))
       /\ UNCHANGED <<products, backend, nextId, bulk>>

\* deleteProduct up to its await: onClick={() => deleteProduct(product.id)}
deleteProduct(i) ==
    /\ Room(1, 1)
    /\ pending' = Append(pending, Request("DELETE", products[i], products))
    /\ sentCount' = sentCount + 1
    /\ ev' = Event("deleteProduct", products[i], <<>>, <<>>,
                   << Sent("DELETE", products[i]) >>)
    /\ UNCHANGED <<products, backend, nextId, bulk>>

\* deleteProduct after the await, try branch
deleteProductThen(i) ==
    /\ pending[i].op = "DELETE"
    /\ pending[i].resp = "ok"
    /\ products' = RemoveById(pending[i].snap, pending[i].body.id)
    /\ pending' = RemoveAt(pending, i)
    /\ ev' = Event("deleteProductThen", pending[i].body, <<>>,
                   << Toast("success", "deleted", 0, pending[i].body.name,
                            pending[i].body.stock) >>, <<>>)
    /\ UNCHANGED <<backend, nextId, sentCount, bulk>>

\* deleteProduct after the await, catch branch
deleteProductCatch(i) ==
    /\ pending[i].op = "DELETE"
    /\ pending[i].resp = "fail"
    /\ pending' = RemoveAt(pending, i)
    /\ ev' = Event("deleteProductCatch", pending[i].body, <<>>,
                   << Toast("error", "delete-failed", 0, "", 0) >>, <<>>)
    /\ UNCHANGED <<products, backend, nextId, sentCount, bulk>>

\* ---------------------------------------------- AddProductForm handlers
\* !product.name || !product.category || product.price <= 0 || product.stock < 0
FormInvalid(product) ==
    \/ product.name = ""
    \/ product.category = ""
    \/ product.price <= 0
    \/ product.stock < 0

\* handleSubmit with the form holding c; onAdd is the addProduct of the
\* current render of the list
handleSubmit(c) ==
    /\ Room(1, 1)
    /\ IF FormInvalid(c)
       THEN /\ ev' = Event("handleSubmit", c, <<>>,
                           << Toast("error", "invalid", 0, c.name, c.stock) >>, <<>>)
            /\ UNCHANGED <<pending, sentCount>>
       ELSE /\ pending' = pending \o addProductRequests(c, products)
            /\ sentCount' = sentCount + Len(addProductRequests(c, products))
            /\ ev' = Event("handleSubmit", c, <<>>,
                           addProductToasts(c, products)
                           \o << Toast("success", "form-added", 0, c.name, c.stock) >>,
                           SentOf(addProductRequests(c, products)))
    /\ UNCHANGED <<products, backend, nextId, bulk>>

\* a data line of an imported file after line.split(","): the first five fields
Row(id, name, category, price, stock) ==
    [id |-> id, name |-> name, category |-> category, price |-> price, stock |-> stock]

Rows ==
    { Row("7", "Gizmo", "Books", "5", "9"),
      Row("8", "widget", "Books", "5", "10"),
      Row("9", "Gizmo", "Books", "", "10"),
      Row("9", "Gizmo", "Books", "0", "10") }

\* Number(s) on the numerals of the model; Number("") is 0
ToNumber(s) ==
    CASE s = "0" -> 0
      [] s = "5" -> 5
      [] s = "7" -> 7
      [] s = "8" -> 8
      [] s = "9" -> 9
      [] s = "10" -> 10
      [] OTHER -> 0

\* if (!id || !name || !category || !price || !stock) return null
RowRejected(r) ==
    \/ r.id = ""
    \/ r.name = ""
    \/ r.category = ""
    \/ r.price = ""
    \/ r.stock = ""

\* lines.map(...).filter((p) => p !== null)
RECURSIVE ParseRows(_)
ParseRows(rows) ==
    IF rows = <<>> THEN <<>>
    ELSE (IF RowRejected(Head(rows)) THEN <<>>
          ELSE << Product(ToNumber(Head(rows).id), Head(rows).name, Head(rows).category,
                          ToNumber(Head(rows).price), ToNumber(Head(rows).stock)) >>)
         \o ParseRows(Tail(rows))

Files == UNION { [1..k -> Rows] : k \in 0..MaxLines }

\* the argument of onAdd({name: product.name, ...}): the product without its id
WithoutId(p) == [p EXCEPT !.id = 0]

\* the request that opens a turn of the loop over the products left
BulkNextSent(rest) ==
    IF rest = <<>> THEN <<>> ELSE << Sent("POST-api", Head(rest)) >>

\* handleBulkUpload and reader.onload up to the first await of the loop; the
\* onAdd the loop calls is the addProduct of the render the upload started in
handleBulkUpload(file) ==
    /\ ~bulk.active
    /\ Room(0, 1)
    /\ IF ParseRows(file) = <<>>
       THEN /\ ev' = Event("handleBulkUpload", NoProduct, <<>>, <<>>, <<>>)
            /\ UNCHANGED <<bulk, sentCount>>
       ELSE /\ bulk' = [active |-> TRUE, items |-> ParseRows(file), snap |-> products,
                        successCount |-> 0]
            /\ sentCount' = sentCount + 1
            /\ ev' = Event("handleBulkUpload", NoProduct, <<>>, <<>>,
                           BulkNextSent(ParseRows(file)))
    /\ UNCHANGED <<products, backend, nextId, pending>>

\* after the loop: if (successCount > 0) toast.success(...)
BulkFinalToasts(rest, successCount) ==
    IF rest = <<>> /\ successCount > 0
    THEN << Toast("success", "uploaded", 0, "", successCount) >>
    ELSE <<>>

BulkAfter(rest, successCount) ==
    IF rest = <<>> THEN BulkIdle
    ELSE [bulk EXCEPT !.items = rest, !.successCount = successCount]

\* the loop after await axios.post("/api/products", product) succeeded
bulkPostThen ==
    /\ bulk.active
    /\ LET product == Head(bulk.items)
           rest == Tail(bulk.items)
           reqs == addProductRequests(WithoutId(product), bulk.snap)
       IN /\ Room(Len(reqs), Len(reqs) + Len(BulkNextSent(rest)))
          /\ pending' = pending \o reqs
          /\ sentCount' = sentCount + Len(reqs) + Len(BulkNextSent(rest))
          /\ bulk' = BulkAfter(rest, bulk.successCount + 1)
          /\ ev' = Event("bulkPostThen", product, <<>>,
                         addProductToasts(WithoutId(product), bulk.snap)
                         \o BulkFinalToasts(rest, bulk.successCount + 1),
                         SentOf(reqs) \o BulkNextSent(rest))
    /\ UNCHANGED <<products, backend, nextId>>

\* the catch branch if the failure ended the import: the candidates left are dropped
bulkPostCatchAbort ==
    /\ bulk.active
    /\ bulk' = BulkIdle
    /\ ev' = Event("bulkPostCatch", Head(bulk.items), <<>>,
                   << Toast("error", "upload-failed", 0, Head(bulk.items).name,
                            Head(bulk.items).stock) >>, <<>>)
    /\ UNCHANGED <<products, backend, nextId, pending, sentCount>>

\* the loop after await axios.post("/api/products", product) failed
bulkPostCatch ==
    /\ bulk.active
    /\ LET product == Head(bulk.items)
           rest == Tail(bulk.items)
       IN /\ Room(0, Len(BulkNextSent(rest)))
          /\ sentCount' = sentCount + Len(BulkNextSent(rest))
          /\ bulk' = BulkAfter(rest, bulk.successCount)
          /\ ev' = Event("bulkPostCatch", product, <<>>,
                         << Toast("error", "upload-failed", 0, product.name, product.stock) >>
                         \o BulkFinalToasts(rest, bulk.successCount),
                         BulkNextSent(rest))
    /\ UNCHANGED <<products, backend, nextId, pending>>

\* ------------------------------------------------------------ the backend
Answer(i, resp, data) ==
    /\ pending' = [pending EXCEPT ![i].resp = resp, ![i].data = data]
    /\ ev' = Event("backend", NoProduct, <<>>, <<>>, <<>>)
    /\ UNCHANGED <<products, sentCount, bulk>>

HasId(db, id) == \E j \in 1..Len(db) : db[j].id = id

\* the request does not reach the backend, or its response is lost on the way
TransportFailure(i) ==
    /\ pending[i].resp = "none"
    /\ Answer(i, "fail", <<>>)
    /\ UNCHANGED <<backend, nextId>>

\* GET /products
BackendList(i) ==
    /\ pending[i].resp = "none"
    /\ pending[i].op = "GET"
    /\ Answer(i, "ok", backend)
    /\ UNCHANGED <<backend, nextId>>

\* POST /products: the record is stored under a fresh id and returned
BackendCreate(i) ==
    /\ pending[i].resp = "none"
    /\ pending[i].op = "POST"
    /\ LET rec == [pending[i].body EXCEPT !.id = nextId]
       IN /\ backend' = Append(backend, rec)
          /\ nextId' = nextId + 1
          /\ Answer(i, "ok", <<rec>>)

\* PUT /products/{id}: the record replaces the stored one and is returned
BackendReplace(i) ==
    /\ pending[i].resp = "none"
    /\ pending[i].op = "PUT"
    /\ IF HasId(backend, pending[i].body.id)
       THEN /\ backend' = ReplaceById(backend, pending[i].body.id, pending[i].body)
            /\ Answer(i, "ok", << pending[i].body >>)
       ELSE /\ Answer(i, "fail", <<>>)
            /\ UNCHANGED backend
    /\ UNCHANGED nextId

\* DELETE /products/{id}
BackendDelete(i) ==
    /\ pending[i].resp = "none"
    /\ pending[i].op = "DELETE"
    /\ IF HasId(backend, pending[i].body.id)
       THEN /\ backend' = RemoveById(backend, pending[i].body.id)
            /\ Answer(i, "ok", <<>>)
       ELSE /\ Answer(i, "fail", <<>>)
            /\ UNCHANGED backend
    /\ UNCHANGED nextId

\* ------------------------------------------------------------------ Next
\* a low-stock toast leaves the screen: its duration is over or it is dismissed
toastRemove(k) ==
    /\ toaster' = RemoveAt(toaster, k)
    /\ ev' = Event("toastRemove", NoProduct, <<>>, <<>>, <<>>)
    /\ UNCHANGED <<storeVars, viewVars, authVars, importLog, formVars>>

\* the creation requests among the requests a handler sent
CreationCount(sent) ==
    Cardinality({k \in 1..Len(sent) : sent[k].op \in {"POST", "POST-api"}})

\* the log of the import after a step: opened when the loop is entered, the
\* creation requests of each turn added, closed when the loop is left
Logged ==
    IF ~bulk'.active THEN LogIdle
    ELSE IF ~bulk.active
         THEN [accepted |-> Len(bulk'.items), requests |-> CreationCount(ev'.sent)]
    ELSE IF ev'.op \in {"bulkPostThen", "bulkPostCatch"}
         THEN [importLog EXCEPT !.requests = @ + CreationCount(ev'.sent)]
    ELSE importLog

\* what every handler of the product list and of the add form leaves behind:
\* the toasts it emitted are on screen
Toasted ==
    /\ toaster' = ShowAll(toaster, ev'.toasts)
    /\ importLog' = Logged
    /\ UNCHANGED <<viewVars, authVars>>

\* the same for the handlers that leave the fields of the add form alone
Shown == Toasted /\ UNCHANGED formVars

Next ==
    \/ Mount /\ Shown
    \/ \E c \in Candidates : handleSubmit(c) /\ Shown
    \/ \E i \in 1..Len(products), c \in Candidates : handleEditSubmit(i, c) /\ Shown
    \/ \E i \in 1..Len(products) : deleteProduct(i) /\ Shown
    \/ \E f \in Files : handleBulkUpload(f) /\ Shown
    \/ bulkPostThen /\ Shown
    \/ bulkPostCatch /\ Shown
    \/ \E i \in 1..Len(pending) : TransportFailure(i) /\ Shown
    \/ \E i \in 1..Len(pending) : BackendList(i) /\ Shown
    \/ \E i \in 1..Len(pending) : BackendCreate(i) /\ Shown
    \/ \E i \in 1..Len(pending) : BackendReplace(i) /\ Shown
    \/ \E i \in 1..Len(pending) : BackendDelete(i) /\ Shown
    \/ \E i \in 1..Len(pending) : fetchProductsThen(i) /\ Shown
    \/ \E i \in 1..Len(pending) : fetchProductsCatch(i) /\ Shown
    \/ \E i \in 1..Len(pending) : addProductThen(i) /\ Shown
    \/ \E i \in 1..Len(pending) : addProductCatch(i) /\ Shown
    \/ \E i \in 1..Len(pending) : updateProductThen(i) /\ Shown
    \/ \E i \in 1..Len(pending) : updateProductCatch(i) /\ Shown
    \/ \E i \in 1..Len(pending) : deleteProductThen(i) /\ Shown
    \/ \E i \in 1..Len(pending) : deleteProductCatch(i) /\ Shown
    \/ \E k \in 1..Len(toaster) : toastRemove(k)

Spec == Init /\ [][Next]_vars

\* ------------------------------------------------ the bulk import alone
\* The list is loaded and an admin imports files; nothing else is done, so
\* every creation request is one the import caused.  The requests of the run
\* are counted from here.
InitBulk ==
    /\ products = InitialDb
    /\ backend = InitialDb
    /\ nextId = 3
    /\ sentCount = 0
    /\ pending = <<>>
    /\ bulk = BulkIdle
    /\ ev = Event("fetchProductsThen", NoProduct, InitialDb, LowStockToasts(InitialDb), <<>>)
    /\ toaster = ShowAll(<<>>, LowStockToasts(InitialDb))
    /\ search = <<>>
    /\ categoryFilter = ""
    /\ sortBy = ""
    /\ user = Session("admin", "admin")
    /\ localStorage = Stringify(user)
    /\ syncDue = FALSE
    /\ app = "running"
    /\ route = "/"
    /\ screen = Surfaces(route, user)
    /\ importLog = LogIdle
    /\ form = EmptyForm
    /\ isGenerating = FALSE
    /\ HUGGINGFACE_API_KEY = "hf-key"

NextBulk ==
    \/ \E f \in Files : handleBulkUpload(f) /\ Shown
    \/ bulkPostThen /\ Shown
    \/ bulkPostCatch /\ Shown
    \/ \E i \in 1..Len(pending) : TransportFailure(i) /\ Shown
    \/ \E i \in 1..Len(pending) : BackendCreate(i) /\ Shown
    \/ \E i \in 1..Len(pending) : addProductThen(i) /\ Shown
    \/ \E i \in 1..Len(pending) : addProductCatch(i) /\ Shown

SpecBulk == InitBulk /\ [][NextBulk]_vars

\* ------------------------------------------------------ the filtered view
\* In the runs that take the filtered view a name is the sequence of its
\* letters, of the alphabet a, A, b, B.
LowerChar(ch) ==
    CASE ch = "A" -> "a"
      [] ch = "B" -> "b"
      [] OTHER -> ch

\* String.prototype.toLowerCase, letter by letter
ToLowerCaseChars(cs) == [k \in 1..Len(cs) |-> LowerChar(cs[k])]

\* String.prototype.includes
Includes(h, n) == \E o \in 0..(Len(h) - Len(n)) : SubSeq(h, o + 1, o + Len(n)) = n

\* String.prototype.localeCompare in the default locale: the letters decide
\* first (a before b, a prefix before its extensions), then the case of the
\* first letter that differs in case only, lower case first
LetterRank(ch) == IF LowerChar(ch) = "a" THEN 1 ELSE 2

RECURSIVE LettersCompare(_, _)
LettersCompare(a, b) ==
    IF a = <<>> /\ b = <<>> THEN 0
    ELSE IF a = <<>> THEN -1
    ELSE IF b = <<>> THEN 1
    ELSE IF LetterRank(Head(a)) < LetterRank(Head(b)) THEN -1
    ELSE IF LetterRank(Head(a)) > LetterRank(Head(b)) THEN 1
    ELSE LettersCompare(Tail(a), Tail(b))

RECURSIVE CaseCompare(_, _)
CaseCompare(a, b) ==
    IF a = <<>> \/ b = <<>> THEN 0
    ELSE IF Head(a) = Head(b) THEN CaseCompare(Tail(a), Tail(b))
    ELSE IF Head(a) = LowerChar(Head(a)) THEN -1
    ELSE 1

LocaleCompare(a, b) ==
    IF LettersCompare(a, b) # 0 THEN LettersCompare(a, b) ELSE CaseCompare(a, b)

\* a comparator that orders by price ascending whenever it orders by price
CompareAscendingOnly(a, b, k) ==
    CASE k = "price-asc" -> a.price - b.price
      [] k = "price-desc" -> a.price - b.price
      [] k = "name-asc" -> LocaleCompare(a.name, b.name)
      [] k = "name-desc" -> LocaleCompare(b.name, a.name)
      [] OTHER -> 0

\* the comparator handed to sort when sortBy is k
Compare(a, b, k) ==
    CASE k = "price-asc" -> a.price - b.price
      [] k = "price-desc" -> b.price - a.price
      [] k = "name-asc" -> LocaleCompare(a.name, b.name)
      [] k = "name-desc" -> LocaleCompare(b.name, a.name)
      [] OTHER -> 0

\* Array.prototype.sort is stable: x goes behind every element that does not
\* compare greater than it
RECURSIVE SortInsert(_, _, _)
SortInsert(sorted, x, k) ==
    IF sorted = <<>> THEN <<x>>
    ELSE IF Compare(sorted[Len(sorted)], x, k) > 0
         THEN Append(SortInsert(SubSeq(sorted, 1, Len(sorted) - 1), x, k),
                     sorted[Len(sorted)])
         ELSE Append(sorted, x)

RECURSIVE StableSort(_, _)
StableSort(ps, k) ==
    IF ps = <<>> THEN <<>>
    ELSE SortInsert(StableSort(SubSeq(ps, 1, Len(ps) - 1), k), ps[Len(ps)], k)

\* const filteredProducts = products.filter(...).filter(...).sort(...) of a
\* render whose search, categoryFilter and sortBy are s, c and k
filteredProducts(ps, s, c, k) ==
    StableSort(
        SelectSeq(
            SelectSeq(ps, LAMBDA p : Includes(ToLowerCaseChars(p.name), ToLowerCaseChars(s))),
            LAMBDA p : IF c # "" THEN p.category = c ELSE TRUE),
        k)

\* sort sorts the array it is called on: here, `products` itself
productsSortedInPlace(ps, s, c, k) == StableSort(ps, k)

\* what the expression leaves in `products`: sort sorts the array it is called
\* on, and that array is the new one the second filter returned
productsAfterView(ps, s, c, k) == ps

\* a render of the list with search, categoryFilter and sortBy set to s, c, k
Render(op, s, c, k) ==
    /\ search' = s
    /\ categoryFilter' = c
    /\ sortBy' = k
    /\ products' = productsAfterView(products, s, c, k)
    /\ ev' = Event(op, NoProduct, filteredProducts(products, s, c, k), <<>>, <<>>)
    /\ UNCHANGED <<backend, nextId, sentCount, pending, bulk, toaster, authVars,
                   importLog, formVars>>

\* onChange={(e) => setSearch(e.target.value)}
setSearch(s) == Render("setSearch", s, categoryFilter, sortBy)

\* onChange={(e) => setCategoryFilter(e.target.value)}
setCategoryFilter(c) == Render("setCategoryFilter", search, c, sortBy)

\* onChange={(e) => setSortBy(e.target.value)}
setSortBy(k) == Render("setSortBy", search, categoryFilter, k)

\* what can be typed into the search box, and the options of the two selects
Searches == { <<>>, <<"A">>, <<"b">>, <<"a", "B">>, <<"b", "a">> }

CategoryOptions == { "", "Books", "Clothing" }

SortOptions == { "", "price-asc", "price-desc", "name-asc", "name-desc" }

\* the products a loaded list is made of: ties in price, names that differ in
\* case only, one name twice, categories that differ in case only
ViewProducts ==
    { Product(1, <<"a", "b">>, "Books", 5, 20),
      Product(2, <<"A", "b">>, "Books", 5, 20),
      Product(3, <<"b">>, "books", 3, 20),
      Product(4, <<"a", "b">>, "Clothing", 7, 20) }

ViewLists ==
    { l \in UNION { [1..n -> ViewProducts] : n \in 0..MaxViewLen } :
        \A i, j \in 1..Len(l) : i # j => l[i].id # l[j].id }

\* ProductList shows a loaded list; nothing is in flight
InitView ==
    /\ products \in ViewLists
    /\ backend = products
    /\ nextId = 5
    /\ sentCount = 1
    /\ pending = <<>>
    /\ bulk = BulkIdle
    /\ ev = Event("fetchProductsThen", NoProduct, products, <<>>, <<>>)
    /\ toaster = <<>>
    /\ search = <<>>
    /\ categoryFilter = ""
    /\ sortBy = ""
    /\ user = Anonymous
    /\ localStorage = NoEntry
    /\ syncDue = FALSE
    /\ app = "running"
    /\ route = "/"
    /\ screen = Surfaces(route, user)
    /\ importLog = LogIdle
    /\ form = EmptyForm
    /\ isGenerating = FALSE
    /\ HUGGINGFACE_API_KEY = "hf-key"

NextView ==
    \/ \E s \in Searches : setSearch(s)
    \/ \E c \in CategoryOptions : setCategoryFilter(c)
    \/ \E k \in SortOptions : setSortBy(k)

SpecView == InitView /\ [][NextView]_vars

\* ------------------------------------------- AuthProvider, Login, Navbar
MaxEntryLen == 2    \* tokens of a stored entry that JSON.parse rejects
MaxLogins == 1      \* submissions of the login form in flight at once

Credentials(username, password) == [username |-> username, password |-> password]

\* what can be typed into the login form; both inputs are required
Usernames == {"admin", "Admin", "user"}

Passwords == {"admin123", "user123"}

Paths == {"/", "/login", "/admin"}

\* the entries the browser may hold when the page loads: none, the session of
\* an earlier visit, or a text JSON.parse rejects
StoredEntries ==
    {NoEntry, Stringify(Session("admin", "admin"))}
    \cup { SubSeq(Stringify(Session("admin", "admin")), 1, n) : n \in 1..MaxEntryLen }

\* what the handler `op` did: data holds the paths it navigated to
AuthEvent(op, arg, paths, toasts, sent) == Event(op, arg, paths, toasts, sent)

\* the render that follows a handler: the router resolves the path and the
\* routes render for the session u the handler leaves
Rendered(path, u) ==
    /\ route' = Resolve(path, u)
    /\ screen' = Surfaces(path, u)

\* the last account that matches
FindLast(users, username, password) ==
    LET hits == SelectSeq(users, LAMBDA u : u.username = username /\ u.password = password)
    IN IF hits = <<>> THEN <<>> ELSE << hits[Len(hits)] >>

\* users.find((u) => u.username === username && u.password === password):
\* empty when find returns undefined
Find(users, username, password) ==
    LET hits == SelectSeq(users, LAMBDA u : u.username = username /\ u.password = password)
    IN IF hits = <<>> THEN <<>> ELSE << hits[1] >>

\* the page loads: AuthProvider's useState initialiser reads the stored entry.
\* JSON.parse throws on a text it rejects, no error boundary catches it, and
\* React unmounts the tree.  Requests of the page that was open are dropped.
\* (main.tsx and App each mount an AuthProvider; both read the same entry, and
\* the components are served by App's.)
AuthProviderMount ==
    /\ pending' = <<>>
    /\ IF localStorage = NoEntry \/ WellFormed(localStorage)
       THEN /\ user' = (IF localStorage = NoEntry THEN Anonymous ELSE Parse(localStorage))
            /\ app' = "running"
            /\ syncDue' = TRUE
            /\ Rendered(route, IF localStorage = NoEntry THEN Anonymous
                                ELSE Parse(localStorage))
       ELSE /\ user' = Anonymous
            /\ app' = "crashed"
            /\ syncDue' = FALSE
            /\ route' = route
            /\ screen' = {}
    /\ ev' = AuthEvent("AuthProviderMount", NoProduct, <<>>, <<>>, <<>>)
    /\ UNCHANGED <<products, backend, nextId, sentCount, bulk, toaster, viewVars,
                   localStorage, importLog, formVars>>

\* useEffect(() => { ... }, [user]) of AuthProvider
useEffectSync ==
    /\ app = "running"
    /\ syncDue
    /\ localStorage' = (IF user # Anonymous THEN Stringify(user) ELSE NoEntry)
    /\ syncDue' = FALSE
    /\ ev' = AuthEvent("useEffectSync", NoProduct, <<>>, <<>>, <<>>)
    /\ UNCHANGED <<storeVars, toaster, viewVars, user, app, route, screen, importLog, formVars>>

\* Login.handleSubmit up to the await of login, and login up to its await of
\* fetch; the closure holds the `user` of the render the form was submitted in
loginSubmit(username, password) ==
    /\ app = "running"
    /\ route = "/login"
    /\ Len(pending) + 1 <= MaxLogins
    /\ Room(1, 1)
    /\ pending' = Append(pending, Request("GET-users", Credentials(username, password),
                                          useAuth))
    /\ sentCount' = sentCount + 1
    /\ ev' = AuthEvent("loginSubmit", Credentials(username, password), <<>>, <<>>,
                       << Sent("GET-users", Credentials(username, password)) >>)
    /\ UNCHANGED <<products, backend, nextId, bulk, toaster, viewVars, authVars,
                   importLog, formVars>>

\* GET /users
BackendUsers(i) ==
    /\ pending[i].resp = "none"
    /\ pending[i].op = "GET-users"
    /\ Answer(i, "ok", InitialUsers)
    /\ UNCHANGED <<backend, nextId>>

\* login after its awaits found an account, and handleSubmit after its await:
\* setUser, the success toast and navigate by the role of the closure's user
loginThen(i) ==
    /\ app = "running"
    /\ pending[i].op = "GET-users"
    /\ pending[i].resp = "ok"
    /\ Find(pending[i].data, pending[i].body.username, pending[i].body.password) # <<>>
    /\ LET foundUser == Find(pending[i].data, pending[i].body.username,
                             pending[i].body.password)[1]
           path == IF IsAdmin(pending[i].snap) THEN "/admin" ELSE "/"
       IN /\ user' = Session(foundUser.username, foundUser.role)
          /\ syncDue' = TRUE
          /\ Rendered(path, Session(foundUser.username, foundUser.role))
          /\ ev' = AuthEvent("loginThen", pending[i].body, <<path>>,
                             << Toast("success", "logged-in", 0,
                                      pending[i].body.username, 0) >>, <<>>)
    /\ pending' = RemoveAt(pending, i)
    /\ UNCHANGED <<products, backend, nextId, sentCount, bulk, toaster, viewVars,
                   localStorage, app, importLog, formVars>>

\* login threw, because fetch failed or because no account matched, and the
\* catch of handleSubmit shows the error
loginCatch(i) ==
    /\ app = "running"
    /\ pending[i].op = "GET-users"
    /\ \/ pending[i].resp = "fail"
       \/ /\ pending[i].resp = "ok"
          /\ Find(pending[i].data, pending[i].body.username,
                  pending[i].body.password) = <<>>
    /\ pending' = RemoveAt(pending, i)
    /\ ev' = AuthEvent("loginCatch", pending[i].body, <<>>,
                       << Toast("error", "invalid-credentials", 0, "", 0) >>, <<>>)
    /\ UNCHANGED <<products, backend, nextId, sentCount, bulk, toaster, viewVars,
                   authVars, importLog, formVars>>

\* Navbar.handleLogout: logout(); navigate("/login")
handleLogout ==
    /\ app = "running"
    /\ user # Anonymous
    /\ user' = Anonymous
    /\ syncDue' = TRUE
    /\ Rendered("/login", Anonymous)
    /\ ev' = AuthEvent("handleLogout", NoProduct, << "/login" >>, <<>>, <<>>)
    /\ UNCHANGED <<storeVars, toaster, viewVars, localStorage, app, importLog, formVars>>

\* a link of the Navbar is followed or a path is typed into the address bar
navigateTo(path) ==
    /\ app = "running"
    /\ Rendered(path, user)
    /\ ev' = AuthEvent("navigateTo", NoProduct, <<path>>, <<>>, <<>>)
    /\ UNCHANGED <<storeVars, toaster, viewVars, user, localStorage, syncDue, app,
                   importLog, formVars>>

\* the browser holds some entry and the page has yet to load
InitAuth ==
    /\ products = <<>>
    /\ backend = InitialDb
    /\ nextId = 3
    /\ sentCount = 0
    /\ pending = <<>>
    /\ bulk = BulkIdle
    /\ ev = AuthEvent("unloaded", NoProduct, <<>>, <<>>, <<>>)
    /\ toaster = <<>>
    /\ search = <<>>
    /\ categoryFilter = ""
    /\ sortBy = ""
    /\ user = Anonymous
    /\ localStorage \in StoredEntries
    /\ syncDue = FALSE
    /\ app = "unloaded"
    /\ route \in Paths
    /\ screen = {}
    /\ importLog = LogIdle
    /\ form = EmptyForm
    /\ isGenerating = FALSE
    /\ HUGGINGFACE_API_KEY = "hf-key"

NextAuth ==
    \/ AuthProviderMount
    \/ useEffectSync
    \/ \E u \in Usernames, p \in Passwords : loginSubmit(u, p)
    \/ \E i \in 1..Len(pending) : BackendUsers(i) /\ UNCHANGED <<toaster, viewVars, authVars, importLog, formVars>>
    \/ \E i \in 1..Len(pending) :
         TransportFailure(i) /\ app = "running"
                             /\ UNCHANGED <<toaster, viewVars, authVars, importLog, formVars>>
    \/ \E i \in 1..Len(pending) : loginThen(i)
    \/ \E i \in 1..Len(pending) : loginCatch(i)
    \/ handleLogout
    \/ \E path \in Paths : navigateTo(path)

SpecAuth == InitAuth /\ [][NextAuth]_vars

\* --------------------------------------------- the list after its load
\* The list has been loaded and is not loaded again: an admin adds, edits,
\* deletes and imports.
NextLoaded ==
    \/ \E c \in Candidates : handleSubmit(c) /\ Shown
    \/ \E i \in 1..Len(products), c \in Candidates : handleEditSubmit(i, c) /\ Shown
    \/ \E i \in 1..Len(products) : deleteProduct(i) /\ Shown
    \/ \E f \in Files : handleBulkUpload(f) /\ Shown
    \/ bulkPostThen /\ Shown
    \/ bulkPostCatch /\ Shown
    \/ \E i \in 1..Len(pending) : TransportFailure(i) /\ Shown
    \/ \E i \in 1..Len(pending) : BackendCreate(i) /\ Shown
    \/ \E i \in 1..Len(pending) : BackendReplace(i) /\ Shown
    \/ \E i \in 1..Len(pending) : BackendDelete(i) /\ Shown
    \/ \E i \in 1..Len(pending) : addProductThen(i) /\ Shown
    \/ \E i \in 1..Len(pending) : addProductCatch(i) /\ Shown
    \/ \E i \in 1..Len(pending) : updateProductThen(i) /\ Shown
    \/ \E i \in 1..Len(pending) : updateProductCatch(i) /\ Shown
    \/ \E i \in 1..Len(pending) : deleteProductThen(i) /\ Shown
    \/ \E i \in 1..Len(pending) : deleteProductCatch(i) /\ Shown

SpecLoaded == InitBulk /\ [][NextLoaded]_vars

\* ------------------------------------------------------ AdminDashboard
\* The dashboard of /admin: `products` is the state of the dashboard, `backend`
\* what GET /api/products returns. A record is [id, category, price, stock,
\* updatedAt]; updatedAt is a time in days, 0 when the record has none.
MaxDash == 3        \* records of the collection the dashboard fetches

\* new Date().toISOString() at the time of the fetch: later than every stored time
Now == 3

\* slice(0, 5)
SliceLimit == 5

DashProduct(id, category, price, stock, updatedAt) ==
    [id |-> id, category |-> category, price |-> price, stock |-> stock,
     updatedAt |-> updatedAt]

DashProducts ==
    { DashProduct(1, "Books", 5, 5, 1),
      DashProduct(2, "Clothing", 5, 50, 2),
      DashProduct(3, "Books", 2, 5, 2),
      DashProduct(4, "Clothing", 1, 10, 0) }

DashLists ==
    { l \in UNION { [1..k -> DashProducts] : k \in 0..MaxDash } :
        \A i, j \in 1..Len(l) : i # j => l[i] # l[j] }

\* response.data.map((p) => ({...p, updatedAt: p.updatedAt || new Date().toISOString()}))
fetchedProducts(data) ==
    [k \in 1..Len(data) |->
        IF data[k].updatedAt = 0 THEN [data[k] EXCEPT !.updatedAt = Now] ELSE data[k]]

\* the comparators of the two sorts: a.stock - b.stock, and
\* new Date(b.updatedAt).getTime() - new Date(a.updatedAt).getTime()
DashCompare(a, b, k) ==
    IF k = "stock" THEN a.stock - b.stock ELSE b.updatedAt - a.updatedAt

RECURSIVE DashInsert(_, _, _)
DashInsert(sorted, x, k) ==
    IF sorted = <<>> THEN <<x>>
    ELSE IF DashCompare(x, Head(sorted), k) < 0 THEN <<x>> \o sorted
    ELSE <<Head(sorted)>> \o DashInsert(Tail(sorted), x, k)

\* Array.prototype.sort with the comparator k: stable
RECURSIVE DashSort(_, _)
DashSort(ps, k) ==
    IF ps = <<>> THEN <<>>
    ELSE DashInsert(DashSort(SubSeq(ps, 1, Len(ps) - 1), k), ps[Len(ps)], k)

Slice(ps, n) == SubSeq(ps, 1, IF Len(ps) < n THEN Len(ps) ELSE n)

totalProducts(ps) == Len(ps)

lowStockCount(ps) == Len(SelectSeq(ps, LAMBDA p : p.stock < 10))

RECURSIVE totalValue(_)
totalValue(ps) ==
    IF ps = <<>> THEN 0 ELSE Head(ps).price * Head(ps).stock + totalValue(Tail(ps))

stockDistribution(ps) ==
    SelectSeq(<< [name |-> "0-10",
                  value |-> Len(SelectSeq(ps, LAMBDA p : p.stock <= 10))],
                 [name |-> "11-50",
                  value |-> Len(SelectSeq(ps, LAMBDA p : p.stock > 10 /\ p.stock <= 50))],
                 [name |-> "51+",
                  value |-> Len(SelectSeq(ps, LAMBDA p : p.stock > 50))] >>,
              LAMBDA d : d.value > 0)

\* the keys of categoryBreakdown in the order reduce inserted them
RECURSIVE categoryKeys(_)
categoryKeys(ps) ==
    IF ps = <<>> THEN <<>>
    ELSE LET keys == categoryKeys(SubSeq(ps, 1, Len(ps) - 1))
             c == ps[Len(ps)].category
         IN IF \E k \in 1..Len(keys) : keys[k] = c THEN keys ELSE Append(keys, c)

categoryChartData(ps) ==
    [k \in 1..Len(categoryKeys(ps)) |->
        [name |-> categoryKeys(ps)[k],
         value |-> Len(SelectSeq(ps, LAMBDA p : p.category = categoryKeys(ps)[k]))]]

\* filter copies, so this sort works on the copy
lowStockProducts(ps) ==
    Slice(DashSort(SelectSeq(ps, LAMBDA p : p.stock < 10), "stock"), SliceLimit)

\* products.sort(...) sorts the array of the state itself and returns it
productsAfterRender(ps) == DashSort(ps, "updatedAt")

recentUpdates(ps) == Slice(productsAfterRender(ps), SliceLimit)

\* the values one render of the dashboard computes over the state ps
DerivedValues(ps) ==
    [totalProducts |-> totalProducts(ps),
     lowStockCount |-> lowStockCount(ps),
     totalValue |-> totalValue(ps),
     stockDistribution |-> stockDistribution(ps),
     categoryChartData |-> categoryChartData(ps),
     lowStockProducts |-> lowStockProducts(ps),
     recentUpdates |-> recentUpdates(ps)]

\* GET /api/products
BackendApiList(i) ==
    /\ pending[i].resp = "none"
    /\ pending[i].op = "GET-api"
    /\ Answer(i, "ok", backend)
    /\ UNCHANGED <<backend, nextId>>

\* fetchProducts after the await, try branch: setProducts(fetchedProducts) and
\* the render that follows
dashFetchThen(i) ==
    /\ pending[i].op = "GET-api"
    /\ pending[i].resp = "ok"
    /\ products' = productsAfterRender(fetchedProducts(pending[i].data))
    /\ pending' = RemoveAt(pending, i)
    /\ ev' = Event("dashFetchThen", fetchedProducts(pending[i].data),
                   << DerivedValues(fetchedProducts(pending[i].data)) >>, <<>>, <<>>)
    /\ UNCHANGED <<backend, nextId, sentCount, bulk>>

\* fetchProducts after the await, catch branch
dashFetchCatch(i) ==
    /\ pending[i].op = "GET-api"
    /\ pending[i].resp = "fail"
    /\ pending' = RemoveAt(pending, i)
    /\ ev' = Event("dashFetchCatch", <<>>, <<>>,
                   << Toast("error", "fetch-failed", 0, "", 0) >>, <<>>)
    /\ UNCHANGED <<products, backend, nextId, sentCount, bulk>>

\* the component function runs again over the same state: StrictMode's second
\* run, or a render of its parent
AdminDashboardRender ==
    /\ pending = <<>>
    /\ products' = productsAfterRender(products)
    /\ ev' = Event("AdminDashboardRender", products, << DerivedValues(products) >>,
                   <<>>, <<>>)
    /\ UNCHANGED <<backend, nextId, sentCount, pending, bulk>>

\* the dashboard is mounted: its first render ran over [] and the effect has
\* sent the request
InitDash ==
    /\ backend \in DashLists
    /\ products = <<>>
    /\ nextId = 5
    /\ sentCount = 1
    /\ pending = << Request("GET-api", NoProduct, <<>>) >>
    /\ bulk = BulkIdle
    /\ ev = Event("AdminDashboardMount", <<>>, << DerivedValues(<<>>) >>, <<>>,
                  << Sent("GET-api", NoProduct) >>)
    /\ toaster = <<>>
    /\ search = <<>>
    /\ categoryFilter = ""
    /\ sortBy = ""
    /\ user = Session("admin", "admin")
    /\ localStorage = Stringify(user)
    /\ syncDue = FALSE
    /\ app = "running"
    /\ route = "/admin"
    /\ screen = Surfaces(route, user)
    /\ importLog = LogIdle
    /\ form = EmptyForm
    /\ isGenerating = FALSE
    /\ HUGGINGFACE_API_KEY = "hf-key"

NextDash ==
    \/ \E i \in 1..Len(pending) : TransportFailure(i) /\ Shown
    \/ \E i \in 1..Len(pending) : BackendApiList(i) /\ Shown
    \/ \E i \in 1..Len(pending) : dashFetchThen(i) /\ Shown
    \/ \E i \in 1..Len(pending) : dashFetchCatch(i) /\ Shown
    \/ AdminDashboardRender /\ Shown

SpecDash == InitDash /\ [][NextDash]_vars

\* --------------------------------------- AddProductForm: the description
\* The add form is open over the loaded list; an admin fills its fields and
\* asks for a generated description. A generation request in flight is an
\* entry of `pending` with op "POST-generate"; its snap is the `product` of the
\* render in which Generate was clicked.
\* what an admin can put into a field
FieldValues(field) ==
    CASE field = "name" -> {"", "Gizmo"}
      [] field = "category" -> {"", "Books"}
      [] field = "price" -> {0, 5}
      [] field = "stock" -> {0, 9}
      [] field = "description" -> {"", "typed"}
      [] field = "url" -> {"", "http://u"}

\* onChange of an input: setProduct({ ...product, [field]: value })
onChange(field, value) ==
    /\ value # form[field]
    /\ form' = [form EXCEPT ![field] = value]
    /\ ev' = Event("onChange", form, <<>>, <<>>, <<>>)
    /\ UNCHANGED <<storeVars, isGenerating, HUGGINGFACE_API_KEY>>

\* generateDescription up to its await; the Generate button is disabled while
\* isGenerating
generateDescription ==
    /\ ~isGenerating
    /\ Room(1, 1)
    /\ IF form.name = "" \/ form.category = ""
       THEN /\ ev' = Event("generateDescription", form, <<>>,
                           << Toast("error", "name-category-first", 0, form.name, 0) >>,
                           <<>>)
            /\ UNCHANGED <<pending, sentCount, isGenerating>>
       ELSE IF HUGGINGFACE_API_KEY = ""
       THEN /\ ev' = Event("generateDescription", form, <<>>,
                           << Toast("error", "key-missing", 0, form.name, 0) >>, <<>>)
            /\ UNCHANGED <<pending, sentCount, isGenerating>>
       ELSE /\ isGenerating' = TRUE
            /\ pending' = Append(pending, Request("POST-generate", form, form))
            /\ sentCount' = sentCount + 1
            /\ ev' = Event("generateDescription", form, <<>>, <<>>,
                           << Sent("POST-generate", form) >>)
    /\ UNCHANGED <<products, backend, nextId, bulk, form, HUGGINGFACE_API_KEY>>

\* the inference API answers: a generated text ("ok"), 429 or 503
InferenceAnswer(i, status) ==
    /\ pending[i].resp = "none"
    /\ pending[i].op = "POST-generate"
    /\ Answer(i, status, IF status = "ok" THEN << "generated" >> ELSE <<>>)
    /\ UNCHANGED <<backend, nextId>>

\* generateDescription after the await, try branch and finally
generateDescriptionThen(i) ==
    /\ pending[i].op = "POST-generate"
    /\ pending[i].resp = "ok"
    /\ form' = [pending[i].snap EXCEPT !.description = pending[i].data[1]]
    /\ isGenerating' = FALSE
    /\ pending' = RemoveAt(pending, i)
    /\ ev' = Event("generateDescriptionThen", pending[i].snap, pending[i].data,
                   << Toast("success", "generated", 0, pending[i].snap.name, 0) >>, <<>>)
    /\ UNCHANGED <<products, backend, nextId, sentCount, bulk, HUGGINGFACE_API_KEY>>

\* the toast of the catch branch for the status of the response
GenerateFailureToast(resp) ==
    CASE resp = "429" -> Toast("error", "rate-limit", 0, "", 0)
      [] resp = "503" -> Toast("error", "model-loading", 0, "", 0)
      [] OTHER -> Toast("error", "generate-failed", 0, "", 0)

\* a catch branch without the finally: the flag is left as it is
generateDescriptionCatchNoFinally(i) ==
    /\ pending[i].op = "POST-generate"
    /\ pending[i].resp \in {"429", "503", "fail"}
    /\ pending' = RemoveAt(pending, i)
    /\ ev' = Event("generateDescriptionCatch", pending[i].snap, <<>>,
                   << GenerateFailureToast(pending[i].resp) >>, <<>>)
    /\ UNCHANGED <<products, backend, nextId, sentCount, bulk, formVars>>

\* generateDescription after the await, catch branch and finally
generateDescriptionCatch(i) ==
    /\ pending[i].op = "POST-generate"
    /\ pending[i].resp \in {"429", "503", "fail"}
    /\ isGenerating' = FALSE
    /\ pending' = RemoveAt(pending, i)
    /\ ev' = Event("generateDescriptionCatch", pending[i].snap, <<>>,
                   << GenerateFailureToast(pending[i].resp) >>, <<>>)
    /\ UNCHANGED <<products, backend, nextId, sentCount, bulk, form, HUGGINGFACE_API_KEY>>

\* the list is loaded and the add form is open with its fields empty
InitGen ==
    /\ products = InitialDb
    /\ backend = InitialDb
    /\ nextId = 3
    /\ sentCount = 0
    /\ pending = <<>>
    /\ bulk = BulkIdle
    /\ ev = Event("fetchProductsThen", NoProduct, InitialDb, LowStockToasts(InitialDb), <<>>)
    /\ toaster = ShowAll(<<>>, LowStockToasts(InitialDb))
    /\ search = <<>>
    /\ categoryFilter = ""
    /\ sortBy = ""
    /\ user = Session("admin", "admin")
    /\ localStorage = Stringify(user)
    /\ syncDue = FALSE
    /\ app = "running"
    /\ route = "/"
    /\ screen = Surfaces(route, user)
    /\ importLog = LogIdle
    /\ form = EmptyForm
    /\ isGenerating = FALSE
    /\ HUGGINGFACE_API_KEY \in {"", "hf-key"}

NextGen ==
    \/ \E field \in DOMAIN EmptyForm : \E value \in FieldValues(field) :
          onChange(field, value) /\ Toasted
    \/ generateDescription /\ Toasted
    \/ \E i \in 1..Len(pending) : \E status \in {"ok", "429", "503"} :
          InferenceAnswer(i, status) /\ Shown
    \/ \E i \in 1..Len(pending) : TransportFailure(i) /\ Shown
    \/ \E i \in 1..Len(pending) : generateDescriptionThen(i) /\ Toasted
    \/ \E i \in 1..Len(pending) : generateDescriptionCatch(i) /\ Toasted

SpecGen == InitGen /\ [][NextGen]_vars

\* ------------------------------------- AddProductForm: the CSV export
\* A text is a sequence of tokens: the characters that matter to CSV (quote,
\* comma, newline) and words or numerals holding none of them. The fields of
\* an exported record are texts, its price and stock are numerals; `backend`
\* is what GET /api/products returns.
MaxCsv == 2         \* records of the collection that is exported

Quote == "\""

Comma == ","

Newline == "\n"

CsvProduct(id, name, category, price, stock, description, url, updatedAt) ==
    [id |-> id, name |-> name, category |-> category, price |-> price, stock |-> stock,
     description |-> description, url |-> url, updatedAt |-> updatedAt]

CsvProducts ==
    { CsvProduct(<<"1">>, <<"Widget">>, <<"Books">>, "5", "5", <<"plain">>, <<>>, <<>>),
      CsvProduct(<<"2">>, <<"Gadget">>, <<"Books">>, "5", "9",
                 <<"19", Quote, "screen">>, <<"http://u">>, <<"day1">>),
      CsvProduct(<<"3">>, <<"19", Quote, "Monitor">>, <<"Books">>, "5", "9",
                 <<"plain">>, <<>>, <<>>),
      CsvProduct(<<"4">>, <<"Nuts", Comma, "Bolts">>, <<"Books">>, "5", "9",
                 <<"plain">>, <<>>, <<>>),
      CsvProduct(<<"5">>, <<"Gizmo">>, <<"Books">>, "5", "9",
                 <<"two", Newline, "lines">>, <<>>, <<>>) }

CsvLists ==
    { l \in UNION { [1..k -> CsvProducts] : k \in 0..MaxCsv } :
        \A i, j \in 1..Len(l) : i # j => l[i] # l[j] }

\* parts.join(sep)
RECURSIVE Join(_, _)
Join(parts, sep) ==
    IF parts = <<>> THEN <<>>
    ELSE IF Len(parts) = 1 THEN parts[1]
    ELSE parts[1] \o <<sep>> \o Join(Tail(parts), sep)

\* text.replace(/"/g, '""')
RECURSIVE DoubleQuotes(_)
DoubleQuotes(text) ==
    IF text = <<>> THEN <<>>
    ELSE (IF Head(text) = Quote THEN <<Quote, Quote>> ELSE <<Head(text)>>)
         \o DoubleQuotes(Tail(text))

\* "${field}" in the template of a row
InQuotes(text) == <<Quote>> \o text \o <<Quote>>

\* the template of a row: only the description has its quotes doubled
ExportRow(p) ==
    Join(<< InQuotes(p.id), InQuotes(p.name), InQuotes(p.category), InQuotes(<<p.price>>),
            InQuotes(<<p.stock>>), InQuotes(DoubleQuotes(p.description)),
            InQuotes(p.url), InQuotes(p.updatedAt) >>, Comma)

\* "ID,Name,Category,Price,Stock,Description,URL,UpdatedAt"
CsvHeaders ==
    Join(<< <<"ID">>, <<"Name">>, <<"Category">>, <<"Price">>, <<"Stock">>,
            <<"Description">>, <<"URL">>, <<"UpdatedAt">> >>, Comma)

\* [...headers, ...rows].join("\n")
csvContent(ps) ==
    Join(<<CsvHeaders>> \o [k \in 1..Len(ps) |-> ExportRow(ps[k])], Newline)

\* text.split(sep)
RECURSIVE Split(_, _)
Split(text, sep) ==
    IF \A k \in 1..Len(text) : text[k] # sep THEN <<text>>
    ELSE LET k == CHOOSE k \in 1..Len(text) :
                      text[k] = sep /\ \A j \in 1..(k - 1) : text[j] # sep
         IN <<SubSeq(text, 1, k - 1)>> \o Split(SubSeq(text, k + 1, Len(text)), sep)

\* Number(cell) for a cell that is not empty: the numeral, or NaN
NumberOf(cell) ==
    IF Len(cell) = 1 /\ cell[1] \in {"0", "1", "2", "3", "4", "5", "6", "7", "8", "9"}
    THEN cell[1]
    ELSE "NaN"

\* the n-th element of the destructured line.split(","); <<>> stands for both
\* "" and undefined
CellAt(cells, n) == IF n <= Len(cells) THEN cells[n] ELSE <<>>

\* if (!id || !name || !category || !price || !stock) return null
CellsRejected(cells) == \E n \in 1..5 : CellAt(cells, n) = <<>>

\* the object a line is mapped to
LineProduct(cells) ==
    CsvProduct(CellAt(cells, 1), CellAt(cells, 2), CellAt(cells, 3),
               NumberOf(CellAt(cells, 4)), NumberOf(CellAt(cells, 5)),
               CellAt(cells, 6), CellAt(cells, 7),
               IF CellAt(cells, 8) = <<>> THEN <<"now">> ELSE CellAt(cells, 8))

\* text.split("\n").slice(1).map(...).filter((p) => p !== null)
newProducts(text) ==
    LET lines == Tail(Split(text, Newline))
        kept == SelectSeq(lines, LAMBDA line : ~CellsRejected(Split(line, Comma)))
    IN [k \in 1..Len(kept) |-> LineProduct(Split(kept[k], Comma))]

\* exportToCSV up to its await
exportToCSV ==
    /\ Room(1, 1)
    /\ pending' = Append(pending, Request("GET-api", NoProduct, <<>>))
    /\ sentCount' = sentCount + 1
    /\ ev' = Event("exportToCSV", <<>>, <<>>, <<>>, << Sent("GET-api", NoProduct) >>)
    /\ UNCHANGED <<products, backend, nextId, bulk>>

\* exportToCSV after the await, try branch: the file products.csv is downloaded
exportToCSVThen(i) ==
    /\ pending[i].op = "GET-api"
    /\ pending[i].resp = "ok"
    /\ pending' = RemoveAt(pending, i)
    /\ ev' = Event("exportToCSVThen", pending[i].data, << csvContent(pending[i].data) >>,
                   << Toast("success", "exported", 0, "", 0) >>, <<>>)
    /\ UNCHANGED <<products, backend, nextId, sentCount, bulk>>

\* exportToCSV after the await, catch branch
exportToCSVCatch(i) ==
    /\ pending[i].op = "GET-api"
    /\ pending[i].resp = "fail"
    /\ pending' = RemoveAt(pending, i)
    /\ ev' = Event("exportToCSVCatch", <<>>, <<>>,
                   << Toast("error", "export-failed", 0, "", 0) >>, <<>>)
    /\ UNCHANGED <<products, backend, nextId, sentCount, bulk>>

\* reader.onload of handleBulkUpload up to the loop, given the file that was
\* just downloaded
readExportedFile ==
    /\ ev.op = "exportToCSVThen"
    /\ ev' = Event("readExportedFile", ev.data[1], newProducts(ev.data[1]), <<>>, <<>>)
    /\ UNCHANGED storeVars

\* the add form is open; the list of the page plays no part in the export
InitCsv ==
    /\ backend \in CsvLists
    /\ products = <<>>
    /\ nextId = 6
    /\ sentCount = 0
    /\ pending = <<>>
    /\ bulk = BulkIdle
    /\ ev = Event("fetchProductsThen", NoProduct, <<>>, <<>>, <<>>)
    /\ toaster = <<>>
    /\ search = <<>>
    /\ categoryFilter = ""
    /\ sortBy = ""
    /\ user = Session("admin", "admin")
    /\ localStorage = Stringify(user)
    /\ syncDue = FALSE
    /\ app = "running"
    /\ route = "/"
    /\ screen = Surfaces(route, user)
    /\ importLog = LogIdle
    /\ form = EmptyForm
    /\ isGenerating = FALSE
    /\ HUGGINGFACE_API_KEY = "hf-key"

NextCsv ==
    \/ exportToCSV /\ Shown
    \/ \E i \in 1..Len(pending) : BackendApiList(i) /\ Shown
    \/ \E i \in 1..Len(pending) : TransportFailure(i) /\ Shown
    \/ \E i \in 1..Len(pending) : exportToCSVThen(i) /\ Shown
    \/ \E i \in 1..Len(pending) : exportToCSVCatch(i) /\ Shown
    \/ readExportedFile /\ Shown

SpecCsv == InitCsv /\ [][NextCsv]_vars

\* ---------------------------------------------------------------- claims
HasToast(e, type, msg) ==
    \E k \in 1..Len(e.toasts) : e.toasts[k].type = type /\ e.toasts[k].msg = msg

HasSent(e, op) == \E k \in 1..Len(e.sent) : e.sent[k].op = op

CatchOps == {"fetchProductsCatch", "addProductCatch", "updateProductCatch",
             "deleteProductCatch"}

\* C1: in every reachable state no two products of the in-memory collection
\* have names that are equal when compared case-insensitively.
C1_UniqueNames ==
    \A i, j \in 1..Len(products) :
        i # j => ToLowerCase(products[i].name) # ToLowerCase(products[j].name)

\* C2: when add is called with a name that an existing product has, or update
\* with a name that a product with another id has (case-insensitively), the
\* handler emits the duplicate error, sends no create or replace request and
\* leaves the collection as it is.
C2_DuplicateRejected ==
    [][ /\ ( /\ \/ ev'.op = "handleSubmit" /\ ~FormInvalid(ev'.arg)
                \/ ev'.op = "bulkPostThen"
             /\ NameTaken(ev'.arg, products) )
           => /\ products' = products
              /\ HasToast(ev', "error", "duplicate")
              /\ ~HasSent(ev', "POST")
        /\ ( ev'.op = "handleEditSubmit" /\ NameTakenByOther(ev'.arg, products) )
           => /\ products' = products
              /\ HasToast(ev', "error", "duplicate")
              /\ ~HasSent(ev', "PUT")
      ]_vars

\* C3: when the creation request of a valid candidate whose name is not in the
\* collection succeeds, the record the backend returned, with its id, is
\* appended: the collection is the one before followed by that record.
C3_AddAppends ==
    [][ ( /\ ev'.op = "addProductThen"
          /\ ~FormInvalid(ev'.arg)
          /\ ~NameTaken(ev'.arg, products) )
        => /\ products' = Append(products, ev'.data[1])
           /\ ev'.data[1].id # 0
      ]_vars

\* C4: no creation request is sent, by the form or by the bulk import, for a
\* candidate with a blank name, a blank category, price <= 0 or stock < 0.
C4_NoCreateOfInvalid ==
    \A k \in 1..Len(ev.sent) :
        ev.sent[k].op \in {"POST", "POST-api"} => ~FormInvalid(ev.sent[k].body)

\* C5: no replace request is sent for a record with a blank name, a blank
\* category, price <= 0 or stock < 0.
C5_NoReplaceOfInvalid ==
    \A k \in 1..Len(ev.sent) :
        ev.sent[k].op = "PUT" => ~FormInvalid(ev.sent[k].body)

\* C6: when a replace request succeeds, the entry with the updated id becomes
\* the returned record at the same position and every other entry, the order
\* and the length of the collection stay as they were.
C6_UpdateInPlace ==
    [][ ev'.op = "updateProductThen"
        => products' = ReplaceById(products, ev'.arg.id, ev'.data[1]) ]_vars

\* C7: when a delete succeeds, exactly the entries with that id leave the
\* collection and the others keep content and order; when it fails, an error
\* toast is shown and the collection stays as it was.
C7_RemoveExactly ==
    [][ /\ ev'.op = "deleteProductThen"
           => products' = RemoveById(products, ev'.arg.id)
        /\ ev'.op = "deleteProductCatch"
           => products' = products /\ HasToast(ev', "error", "delete-failed")
      ]_vars

\* C8: when the request of load, add, update or remove fails, handling the
\* failure leaves the in-memory collection exactly as it was and emits one
\* error toast and nothing else.
C8_FailureKeepsCollection ==
    [][ ev'.op \in CatchOps
        => /\ products' = products
           /\ Len(ev'.toasts) = 1
           /\ ev'.toasts[1].type = "error"
           /\ ev'.sent = <<>>
      ]_vars

\* C8 witness: a request failed while the collection held the loaded products
C8_Witness ==
    /\ ev.op \in CatchOps
    /\ Len(products) = 2
    /\ HasToast(ev, "error", "add-failed")

\* C9: a successful load makes the fetched list the collection and emits a
\* low-stock toast, keyed by the product's id, for exactly the fetched
\* products whose stock is below the threshold.
C9_LoadLowStock ==
    ev.op = "fetchProductsThen"
    => /\ products = ev.data
       /\ \A k \in 1..Len(ev.toasts) :
            /\ ev.toasts[k].msg = "low-stock"
            /\ \E i \in 1..Len(ev.data) :
                 /\ ev.data[i].stock < LowStockThreshold
                 /\ ev.toasts[k].key = ev.data[i].id
                 /\ ev.toasts[k].name = ev.data[i].name
                 /\ ev.toasts[k].stock = ev.data[i].stock
       /\ \A i \in 1..Len(ev.data) :
            ev.data[i].stock < LowStockThreshold
            => \E k \in 1..Len(ev.toasts) : ev.toasts[k].key = ev.data[i].id
       /\ Len(ev.toasts)
            = Cardinality({i \in 1..Len(ev.data) : ev.data[i].stock < LowStockThreshold})

\* C9 witness: the load of Widget with stock 5 and Gadget with stock 50 has
\* emitted one toast, for Widget
C9_Witness ==
    /\ ev.op = "fetchProductsThen"
    /\ products = InitialDb
    /\ Len(ev.toasts) = 1
    /\ ev.toasts[1].name = "Widget"

\* C10: when add succeeds for a product whose stock is below the threshold, a
\* low-stock toast for that product is emitted with the success toast.
C10_AddLowStock ==
    ( ev.op = "addProductThen" /\ ev.data[1].stock < LowStockThreshold )
    => \E k \in 1..Len(ev.toasts) :
         ev.toasts[k].msg = "low-stock" /\ ev.toasts[k].key = ev.data[1].id

\* C11: at most one low-stock toast per product id is on screen, and when a
\* handler has emitted low-stock toasts for an id, the toast on screen for that
\* id shows the name and the stock of the last one it emitted.
C11_OneLowStockPerId ==
    /\ \A i, j \in 1..Len(toaster) : i # j => toaster[i].key # toaster[j].key
    /\ \A k \in 1..Len(ev.toasts) :
         ev.toasts[k].msg = "low-stock"
         => \E i \in 1..Len(toaster) :
              /\ toaster[i].key = ev.toasts[k].key
              /\ \A m \in k..Len(ev.toasts) :
                   ( /\ ev.toasts[m].key = ev.toasts[k].key
                     /\ \A n \in (m + 1)..Len(ev.toasts) :
                          ev.toasts[n].key # ev.toasts[k].key )
                   => /\ toaster[i].name = ev.toasts[m].name
                      /\ toaster[i].stock = ev.toasts[m].stock

\* C11 witness: the load showed Widget with stock 5 under id 1, and an update of
\* that product to Gizmo with stock 9 has replaced the toast
C11_Witness ==
    /\ ev.op = "updateProductThen"
    /\ Len(toaster) = 1
    /\ toaster[1].key = 1
    /\ toaster[1].name = "Gizmo"
    /\ toaster[1].stock = 9

ViewOps == {"setSearch", "setCategoryFilter", "setSortBy"}

\* C12: taking the filtered and sorted view leaves the base collection as it
\* was, content and order, sends no request and shows no toast.
C12_ViewIsPure ==
    [][ ev'.op \in ViewOps
        => /\ products' = products
           /\ pending' = pending
           /\ sentCount' = sentCount
           /\ ev'.sent = <<>>
           /\ ev'.toasts = <<>>
           /\ toaster' = toaster
      ]_vars

\* C12 witness: a list of three products is shown sorted by price while the
\* collection keeps another order
C12_Witness ==
    /\ ev.op = "setSortBy"
    /\ sortBy = "price-asc"
    /\ Len(products) = 3
    /\ Len(ev.data) = 3
    /\ ev.data # products

SameLetter(x, y) == x = y \/ {x, y} = {"a", "A"} \/ {x, y} = {"b", "B"}

\* the name of p contains the search text, case ignored, and p is of the
\* category of the filter when there is one
Matches(p) ==
    /\ \E o \in 0..Len(p.name) :
         /\ o + Len(search) <= Len(p.name)
         /\ \A k \in 1..Len(search) : SameLetter(p.name[o + k], search[k])
    /\ categoryFilter = "" \/ p.category = categoryFilter

KeyInOrder(a, b) ==
    CASE sortBy = "price-asc" -> a.price <= b.price
      [] sortBy = "price-desc" -> a.price >= b.price
      [] sortBy = "name-asc" -> LocaleCompare(a.name, b.name) <= 0
      [] sortBy = "name-desc" -> LocaleCompare(a.name, b.name) >= 0
      [] OTHER -> TRUE

KeyTie(a, b) ==
    CASE sortBy \in {"price-asc", "price-desc"} -> a.price = b.price
      [] sortBy \in {"name-asc", "name-desc"} -> a.name = b.name
      [] OTHER -> TRUE

PositionOf(p) == CHOOSE i \in 1..Len(products) : products[i] = p

\* C13: the view holds exactly the products whose name contains the search
\* text, case ignored, and whose category equals the filter when one is set;
\* it is ordered by the sort key, and products that tie on the key, or all of
\* them when no key is set, keep the order they have in the collection.
C13_ViewContent ==
    LET v == filteredProducts(products, search, categoryFilter, sortBy)
    IN /\ \A i \in 1..Len(products) :
            Matches(products[i]) <=> \E j \in 1..Len(v) : v[j] = products[i]
       /\ \A j \in 1..Len(v) : \E i \in 1..Len(products) : products[i] = v[j]
       /\ \A i, j \in 1..Len(v) :
            i < j => /\ v[i] # v[j]
                     /\ KeyInOrder(v[i], v[j])
                     /\ KeyTie(v[i], v[j]) => PositionOf(v[i]) < PositionOf(v[j])

\* C13 witness: sorted by price descending, the view of three products starts
\* with the dearest and keeps the two products of equal price in their order
C13_Witness ==
    /\ sortBy = "price-desc"
    /\ search = <<"b">>
    /\ categoryFilter = "Books"
    /\ Len(products) = 3
    /\ products[1].id = 3
    /\ products[2].id = 2
    /\ products[3].id = 1
    /\ ev.data = << products[2], products[3] >>

LoginOps == {"loginThen", "loginCatch"}

\* account n of the backend has exactly the credentials c
MatchesAccount(n, c) ==
    /\ InitialUsers[n].username = c.username
    /\ InitialUsers[n].password = c.password

\* C14: when the users of the backend have been fetched, login sets the
\* session to the username and role of the first account whose username and
\* password equal the ones given, letter for letter; when no account matches
\* it fails with the authentication error and leaves the session as it was.
C14_LoginFirstMatch ==
    [][ \A i \in 1..Len(pending) :
          ( /\ ev'.op \in LoginOps
            /\ pending' = RemoveAt(pending, i)
            /\ pending[i].body = ev'.arg
            /\ pending[i].resp = "ok" )
          => IF \E n \in 1..Len(InitialUsers) : MatchesAccount(n, ev'.arg)
             THEN \E n \in 1..Len(InitialUsers) :
                    /\ MatchesAccount(n, ev'.arg)
                    /\ \A m \in 1..(n - 1) : ~MatchesAccount(m, ev'.arg)
                    /\ user' = Session(InitialUsers[n].username, InitialUsers[n].role)
             ELSE /\ user' = user
                  /\ ev'.op = "loginCatch"
                  /\ HasToast(ev', "error", "invalid-credentials")
      ]_vars

\* C14 witness: the credentials that two accounts share have logged in the
\* first of them, the admin
C14_Witness ==
    /\ ev.op = "loginThen"
    /\ ev.arg = Credentials("admin", "admin123")
    /\ user = Session("admin", "admin")

\* C15: once the effect that follows a change of the session has run, the
\* stored entry is the serialised username and role of the session, or is
\* absent when there is none; a page load then restores that very session.
C15_StoredMirrorsSession ==
    [][ /\ ( app' = "running" /\ ~syncDue' )
           => localStorage' = ( IF user' = Anonymous THEN <<>>
                                ELSE << "{", "username", user'.username,
                                        "role", user'.role, "}" >> )
        /\ ( ev'.op = "AuthProviderMount" /\ app = "running" /\ ~syncDue )
           => app' = "running" /\ user' = user
      ]_vars

\* C15 witness: the user account has logged in, the effect has stored the
\* session, and a page load has restored it
C15_Witness ==
    /\ ev.op = "AuthProviderMount"
    /\ app = "running"
    /\ user = Session("user", "user")
    /\ localStorage = << "{", "username", "user", "role", "user", "}" >>

\* C16: a page load never fails: when the stored entry is absent or is not a
\* serialised session, the session starts anonymous and the page runs.
C16_RestoreNeverFails ==
    ev.op = "AuthProviderMount"
    => /\ app = "running"
       /\ ( localStorage = NoEntry \/ ~WellFormed(localStorage) ) => user = Anonymous

AdminSurfaces == {"AdminDashboard", "AddProductForm", "EditDelete"}

\* C17: the admin route, the add form and the edit and delete controls are
\* rendered only for a session whose role is exactly "admin"; a request for
\* the admin route by anyone else ends on "/", and after logout none of them
\* is on screen.
C17_AdminSurfacesGated ==
    /\ screen \cap AdminSurfaces # {} => ( user # Anonymous /\ user.role = "admin" )
    /\ ( app = "running" /\ route = "/admin" )
       => ( user # Anonymous /\ user.role = "admin" )
    /\ ( ev.op = "navigateTo" /\ ev.data = << "/admin" >>
         /\ ~( user # Anonymous /\ user.role = "admin" ) ) => route = "/"
    /\ ev.op = "handleLogout" => screen \cap AdminSurfaces = {}

\* C17 witness: a logged-in user who is no admin asked for the admin route and
\* is shown the product list without the admin controls
C17_Witness ==
    /\ ev.op = "navigateTo"
    /\ ev.data = << "/admin" >>
    /\ user = Session("user", "user")
    /\ route = "/"
    /\ screen = {"ProductList"}

\* C18: the login view navigates exactly when login succeeds: to "/admin"
\* when the account that has just logged in has the role admin, to "/"
\* otherwise; a failed login shows the error and navigates nowhere.
C18_LoginNavigates ==
    [][ /\ ev'.op = "loginThen"
           => ev'.data = << IF user'.role = "admin" THEN "/admin" ELSE "/" >>
        /\ ev'.op = "loginCatch"
           => ev'.data = <<>> /\ HasToast(ev', "error", "invalid-credentials")
      ]_vars

\* C19: an import sends no creation request for a line with an empty id, name,
\* category, price or stock and exactly one for every other line, so that an
\* import that has ended has sent as many creation requests as it accepted
\* lines; the count it reports is the number of them that succeeded.
C19_OneRequestPerLine ==
    [][ /\ ( ev'.op = "handleBulkUpload" /\ ~bulk'.active )
           => CreationCount(ev'.sent) = 0
        /\ ( bulk.active /\ ~bulk'.active )
           => importLog.requests + CreationCount(ev'.sent) = importLog.accepted
        /\ \A k \in 1..Len(ev'.toasts) :
             ev'.toasts[k].msg = "uploaded"
             => ev'.toasts[k].stock
                  = bulk.successCount + (IF ev'.op = "bulkPostThen" THEN 1 ELSE 0)
      ]_vars

\* the creation requests of the import that have been sent and whose
\* handler has not resumed: the loop's own and those of its onAdd calls
ImportInFlight ==
    (IF bulk.active THEN 1 ELSE 0)
    + Cardinality({i \in 1..Len(pending) : pending[i].op = "POST"})

\* C20: at every moment at most one creation request caused by an import is in
\* flight: the next one is sent when the one before has completed.
C20_Sequential == ImportInFlight <= 1

\* ---------------------------------------------------------------- C21
LoopOps == {"bulkPostThen", "bulkPostCatch"}

\* the toasts of e that tell the upload of a candidate named n failed
NamesFailure(e, n) ==
    \E k \in 1..Len(e.toasts) :
        /\ e.toasts[k].type = "error"
        /\ e.toasts[k].msg = "upload-failed"
        /\ e.toasts[k].name = n

FinalReports(e) ==
    {k \in 1..Len(e.toasts) : e.toasts[k].type = "success" /\ e.toasts[k].msg = "uploaded"}

\* C22: the step that processes the last candidate of an import reports the
\* number of successes exactly once, whatever that number is, and no earlier
\* step of the loop reports it.
C22_FinalReportOnce ==
    [][ev'.op \in LoopOps =>
          IF bulk'.active
          THEN FinalReports(ev') = {}
          ELSE /\ Cardinality(FinalReports(ev')) = 1
               /\ \A k \in FinalReports(ev') :
                     ev'.toasts[k].stock = bulk.successCount
                                           + (IF ev'.op = "bulkPostThen" THEN 1 ELSE 0)]_vars

\* ---------------------------------------------------------------- C28
\* C28: a form submission shows "Product added successfully!" only if the
\* product is being created: never together with the rejection of its name
\* as a duplicate.
C28_SuccessOnlyIfCreated ==
    ev.op = "handleSubmit" /\ HasToast(ev, "success", "form-added")
        => /\ ~HasToast(ev, "error", "duplicate")
           /\ HasSent(ev, "POST")

\* ---------------------------------------------------------------- C26
SuccessOps == {"addProductThen", "updateProductThen", "deleteProductThen"}

\* the id of the record the operation behind e is about
TargetId(e) == IF e.op = "addProductThen" THEN e.data[1].id ELSE e.arg.id

Holds(ps, p) == \E j \in 1..Len(ps) : ps[j] = p

\* C26: no update is lost. The completion of a successful add, update or
\* remove touches its own record only: every other record the collection held
\* just before, put there or changed by operations that completed earlier, is
\* still held unchanged, and no other record comes back.
C26_NoLostUpdate ==
    [][ev'.op \in SuccessOps =>
          /\ \A j \in 1..Len(products) :
                products[j].id # TargetId(ev') => Holds(products', products[j])
          /\ \A k \in 1..Len(products') :
                products'[k].id # TargetId(ev') => Holds(products, products'[k])]_vars

\* ---------------------------------------------------------------- C27
Records(ps) == {ps[j] : j \in 1..Len(ps)}

Quiescent == pending = <<>> /\ ~bulk.active

\* C27: after a successful load and any sequence of adds, updates, removes
\* and imports, whenever no request is in flight the in-memory collection
\* holds exactly the records the backend holds.
C27_CacheCoherent ==
    Quiescent => /\ Records(products) = Records(backend)
                 /\ Len(products) = Len(backend)

\* ---------------------------------------------------------------- C30
DashRenderOps == {"dashFetchThen", "AdminDashboardRender"}

\* C30: computing the derived values of the dashboard changes neither content
\* nor order of the fetched collection: after the render that follows the
\* fetch the state holds the fetched collection as fetched, a later render
\* leaves it as it is, and two renders with no change of data in between
\* yield the same derived values.
C30_RenderIsPure ==
    [][/\ ev'.op = "dashFetchThen" => products' = ev'.arg
       /\ ev'.op = "AdminDashboardRender" =>
            /\ products' = products
            /\ ev.op \in DashRenderOps => ev'.data = ev.data]_vars

\* ---------------------------------------------------------------- C25
GenerationsInFlight ==
    Cardinality({i \in 1..Len(pending) : pending[i].op = "POST-generate"})

GenerateDone == {"generateDescriptionThen", "generateDescriptionCatch"}

C29_OnlyDescriptionChanges ==
    [][ev'.op = "generateDescriptionThen"
          => form' = [form EXCEPT !.description = ev'.data[1]]]_vars

\* ---------------------------------------------------------------- C23
\* a field as CSV writes it: in quotes, every quote inside it doubled
CsvField(text) == <<Quote>> \o DoubleQuotes(text) \o <<Quote>>

CsvRecord(p) ==
    Join(<< CsvField(p.id), CsvField(p.name), CsvField(p.category), CsvField(<<p.price>>),
            CsvField(<<p.stock>>), CsvField(p.description), CsvField(p.url),
            CsvField(p.updatedAt) >>, Comma)

\* C23: the export text is the header row followed by one row per product in
\* collection order, with the fields id, name, category, price, stock,
\* description, url, updatedAt, every field in quotes and every quote inside
\* any field doubled.
C23_ExportQuoted ==
    [][ev'.op = "exportToCSVThen" =>
          ev'.data = << Join(<<CsvHeaders>>
                             \o [k \in 1..Len(ev'.arg) |-> CsvRecord(ev'.arg[k])],
                             Newline) >>]_vars

\* ---------------------------------------------------------------- C24
Tuples(ps) ==
    { <<ps[k].name, ps[k].category, ps[k].price, ps[k].stock>> : k \in 1..Len(ps) }

\* C24: the bulk-import parser, given the text of an export, yields one
\* candidate per exported product, and the (name, category, price, stock) of
\* the candidates are those of the exported collection.
C24_RoundTrip ==
    [][ev'.op = "readExportedFile" =>
          /\ Len(ev'.data) = Len(ev.arg)
          /\ Tuples(ev'.data) = Tuples(ev.arg)]_vars

====
